---- MODULE Spec2Model ----
(***************************************************************************)
(* Veo Creative Studio: the long-running video job of generateVeoVideo     *)
(* (src/services/geminiService.ts) and its caller VeoStudio.handleGenerate *)
(* (src/unnamed/part_002, components/VeoStudio.tsx) under App (src/App.tsx)*)
(*                                                                         *)
(* JavaScript runs a handler to its next await without interleaving, so    *)
(* one action is one such segment: a click handler, a timer callback, the  *)
(* continuation of an awaited call (with the microtasks it triggers).      *)
(* The provider (generateVideos / getVideosOperation) is the environment:  *)
(* every call returns any response of Responses or throws any error of     *)
(* ProviderErrors.                                                         *)
(***************************************************************************)
EXTENDS Integers, Sequences, FiniteSets, TLC

\* ------------------------------------------------------------------ bounds
\* Polls one invocation may issue before the model stops following it.
MaxPolls == 3
\* The same, for an invocation made by the studio.
MaxStudioPolls == 1
\* Bytes of a PCM buffer given to pcmToWav.
MaxLen == 2

\* The two overlapping invocations of generateVeoVideo.
Invs == {1, 2}

\* ------------------------------------------------------- JavaScript values
\* undefined / an absent optional property.
Undefined == "<undefined>"

\* JS truthiness of string | undefined, as used by `||` and `!`.
Truthy(v) == v # Undefined /\ v # ""

\* a || b
OrElse(a, b) == IF Truthy(a) THEN a ELSE b

\* An Error object: who created it and its message.
Err(origin, message) == [origin |-> origin, message |-> message]
NoError == Err("none", Undefined)

\* ------------------------------------------------------ program constants
\* setTimeout(resolve, 5000)
PollIntervalMs == 5000

MsgInit == "Initializing video generation..."
MsgRendering == "Rendering video... This may take a moment."
MsgStill == "Still rendering..."
MsgNoKey == "API Key not found. Please select a project or enter a key in settings."
MsgGenFailed == "Video generation failed"
MsgNoUri == "No video URI returned from the API."

\* ------------------------------------------------------------ the provider
\* operation.error: absent, or an object whose message may be empty.
NoErrField == [set |-> FALSE, message |-> Undefined]
ErrorFields ==
  { NoErrField,
    [set |-> TRUE, message |-> "quota exceeded"],
    [set |-> TRUE, message |-> ""] }

\* operation.response as nested optionals, each a sequence of length 0 or 1
\* (generatedVideos a list): response / generatedVideos[0] / video / uri.
GoodUri == "https://v/1?alt=media"
RespAbsent == << >>
RespNoVideos == << << >> >>
RespNoVideo == << << << >> >> >>
RespNoUri == << << << << >> >> >> >>
RespUri(u) == << << << << u >> >> >> >>
ResponseShapes ==
  { RespAbsent, RespNoVideos, RespNoVideo, RespNoUri, RespUri(""), RespUri(GoodUri) }

\* What a submission or a status call may return (the handle is added by
\* the provider when it answers).
Responses ==
  [done : {FALSE}, error : {NoErrField, [set |-> TRUE, message |-> "quota exceeded"]},
   response : {RespAbsent}]
  \cup [done : {TRUE}, error : {NoErrField}, response : ResponseShapes]
  \cup [done : {TRUE}, error : ErrorFields \ {NoErrField},
         response : {RespAbsent, RespUri(GoodUri)}]

\* What a submission or a status call may throw.
ProviderErrors == { Err("provider", "503 unavailable"), Err("provider", "") }

\* process.env.API_KEY, fixed at build time.
EnvKeys == { Undefined, "ENVKEY" }
\* The apiKey argument.
ExplicitKeys == { "", "USERKEY" }

NoOperation == [name |-> 0, done |-> FALSE, error |-> NoErrField, response |-> RespAbsent]
NoOutcome == [kind |-> "none", value |-> Undefined, error |-> NoError]

VARIABLES
  envKey,      \* process.env.API_KEY
  pc,          \* per invocation: idle, submitting, waiting, polling, resolved, rejected
  apiKey,      \* per invocation: the apiKey argument
  operation,   \* per invocation: the local `operation`
  timer,       \* per invocation: delay of the pending setTimeout, 0 when none
  request,     \* per invocation: handle carried by the status call in flight, 0 when none
  outcome,     \* per invocation: how the returned promise settled
  trace,       \* per invocation (history): the calls made and responses seen, in order
  progress,    \* per invocation (history): the messages passed to onProgress
  thrown,      \* per invocation (history): what the provider threw at it, NoError when nothing
  nextHandle,  \* provider: the next job handle it issues
  handleOf,    \* provider (history): the handle issued to each invocation's submission
  pollLog,     \* provider (history): <<invocation, handle>> of every status call received
  mode,          \* App: the tab shown, VIDEO or AUDIO
  apiKeyReady,   \* App
  customApiKey,  \* App: the settings field, passed to the studios as apiKey
  storedKey,     \* localStorage 'gemini_api_key', Undefined when absent
  selectedImage, \* VeoStudio: << >> for null, else <<mime type, base64 data>>
  imageMimeType, \* VeoStudio
  prompt,        \* VeoStudio
  aspectRatio,   \* VeoStudio
  state,         \* VeoStudio: its VideoGenerationState
  attached,      \* per invocation: started by the VeoStudio instance now mounted
  sourceImage,   \* per invocation (history): the image data the mounted VeoStudio passed
  audioBytes,    \* speech: the PCM buffer decodeAudio returned
  rateArg,       \* speech: the rate pcmToWav was called with, 0 before any call
  wavBlob,       \* speech: the Blob pcmToWav returned
  earlier        \* speech (history): one earlier call of pcmToWav, arguments and result

jobVars == <<pc, apiKey, operation, timer, request, outcome, trace, progress, thrown>>
providerVars == <<nextHandle, handleOf, pollLog>>
appVars == <<mode, apiKeyReady, customApiKey, storedKey>>
studioVars == <<selectedImage, imageMimeType, prompt, aspectRatio, state, attached, sourceImage>>
uiVars == <<appVars, studioVars>>
wavVars == <<audioBytes, rateArg, wavBlob, earlier>>
vars == <<envKey, jobVars, providerVars, uiVars, wavVars>>


\* ---------------------------------------------------------------- history
Count(seq, ev) == Cardinality({k \in DOMAIN seq : seq[k] = ev})
nPoll(i) == Count(trace[i], "poll")
nWait(i) == Count(trace[i], "wait")
nSubmit(i) == Count(trace[i], "submit")
Terminal(i) == pc[i] \in {"resolved", "rejected"}

\* ------------------------------------------- generateVeoVideo, pure parts
\* const apiKey = explicitKey || process.env.API_KEY
ClientKey(explicitKey) == OrElse(explicitKey, envKey)

\* getAiClient throws when that key is missing.
GetAiClientThrows(explicitKey) == ~Truthy(ClientKey(explicitKey))

\* Mutant of LoopContinues: the negation dropped, while (operation.done).
LoopContinuesInverted(op) == op.done

\* Mutant of LoopContinues: the loop also left on an error field,
\* while (!operation.done && !operation.error).
LoopContinuesUntilError(op) == ~op.done /\ ~op.error.set

\* while (!operation.done)
LoopContinues(op) == ~op.done

\* Mutant of WaitMs: a shorter delay, setTimeout(resolve, 500).
WaitMsShort(op) == PollIntervalMs \div 10

\* setTimeout(resolve, 5000)
WaitMs(op) == PollIntervalMs

\* Mutant of PollArgument: `operation` kept in one module-level variable
\* shared by all calls, so a poll carries the handle issued last.
PollArgumentShared(i) == nextHandle - 1

\* getVideosOperation({ operation: operation }): the handle it is called with.
PollArgument(i) == operation[i].name

\* The operation a status call returns replaces the local `operation`.
Refreshed(handle, r) ==
  [name |-> handle, done |-> r.done, error |-> r.error, response |-> r.response]

\* operation.response?.generatedVideos?.[0]?.video?.uri
VideoUriOf(op) ==
  IF op.response = << >> THEN Undefined
  ELSE LET generatedVideos == op.response[1] IN
    IF generatedVideos = << >> THEN Undefined
    ELSE LET first == generatedVideos[1] IN
      IF first = << >> THEN Undefined
      ELSE LET video == first[1] IN
        IF video = << >> THEN Undefined ELSE video[1]

Resolved(v) == [kind |-> "resolved", value |-> v, error |-> NoError]
Rejected(e) == [kind |-> "rejected", value |-> Undefined, error |-> e]

\* Mutant of Rethrow: the error caught and wrapped in a new Error.
RethrowWrapped(e) == Err("veo", OrElse(e.message, MsgGenFailed))

\* An awaited call that throws rejects generateVeoVideo with what it threw
\* (there is no try/catch in the function).
Rethrow(e) == e

\* Mutant of MissingUri: only an absent uri counts, videoUri === undefined.
MissingUriOnlyUndefined(op) == VideoUriOf(op) = Undefined

\* if (!videoUri)
MissingUri(op) == ~Truthy(VideoUriOf(op))

\* Mutant of Settle: the uri looked at before the error field.
SettleUriFirst(op, key) ==
  IF ~MissingUri(op)
    THEN Resolved(VideoUriOf(op) \o "&key=" \o OrElse(key, envKey))
  ELSE IF op.error.set
    THEN Rejected(Err("veo", OrElse(op.error.message, MsgGenFailed)))
  ELSE Rejected(Err("veo", MsgNoUri))

\* Mutant of Settle: only the argument appended, without the fallback to
\* process.env.API_KEY.
SettleExplicitKeyOnly(op, key) ==
  IF op.error.set
    THEN Rejected(Err("veo", OrElse(op.error.message, MsgGenFailed)))
  ELSE IF MissingUri(op)
    THEN Rejected(Err("veo", MsgNoUri))
  ELSE Resolved(VideoUriOf(op) \o "&key=" \o key)

\* After the loop: the error field, then the uri, then the key appended.
Settle(op, key) ==
  IF op.error.set
    THEN Rejected(Err("veo", OrElse(op.error.message, MsgGenFailed)))
  ELSE IF MissingUri(op)
    THEN Rejected(Err("veo", MsgNoUri))
  ELSE Resolved(VideoUriOf(op) \o "&key=" \o OrElse(key, envKey))

RespEvent(op) == IF op.done THEN "done" ELSE "notdone"

\* Mutant of LoopOrSettle: an attempt limit, the call failing once two polls
\* have answered not-done.
LoopOrSettleMaxAttempts(i, op, evs) ==
  IF LoopContinues(op) /\ Count(trace[i], "poll") < 2
    THEN /\ pc' = [pc EXCEPT ![i] = "waiting"]
         /\ timer' = [timer EXCEPT ![i] = WaitMs(op)]
         /\ trace' = [trace EXCEPT ![i] = @ \o evs \o <<"wait">>]
         /\ UNCHANGED outcome
    ELSE /\ pc' = [pc EXCEPT ![i] =
                   IF LoopContinues(op) THEN "rejected" ELSE (Settle(op, apiKey[i])).kind]
         /\ outcome' = [outcome EXCEPT ![i] =
                   IF LoopContinues(op) THEN Rejected(Err("veo", "Video generation timed out"))
                   ELSE Settle(op, apiKey[i])]
         /\ trace' = [trace EXCEPT ![i] = @ \o evs]
         /\ UNCHANGED timer

\* The loop test on a fresh `operation`: start the next wait, or leave the
\* loop and settle.  `evs` are the events of the segment so far.
LoopOrSettle(i, op, evs) ==
  IF LoopContinues(op)
    THEN /\ pc' = [pc EXCEPT ![i] = "waiting"]
         /\ timer' = [timer EXCEPT ![i] = WaitMs(op)]
         /\ trace' = [trace EXCEPT ![i] = @ \o evs \o <<"wait">>]
         /\ UNCHANGED outcome
    ELSE /\ pc' = [pc EXCEPT ![i] = (Settle(op, apiKey[i])).kind]
         /\ outcome' = [outcome EXCEPT ![i] = Settle(op, apiKey[i])]
         /\ trace' = [trace EXCEPT ![i] = @ \o evs]
         /\ UNCHANGED timer

\* ------------------------------------------ generateVeoVideo, its segments
\* The call itself, up to `await ai.models.generateVideos(...)`.
Invoke(i, key) ==
  /\ pc[i] = "idle"
  /\ apiKey' = [apiKey EXCEPT ![i] = key]
  /\ IF GetAiClientThrows(key)
       THEN /\ pc' = [pc EXCEPT ![i] = "rejected"]
            /\ outcome' = [outcome EXCEPT ![i] = Rejected(Err("veo", MsgNoKey))]
            /\ UNCHANGED <<trace, progress>>
       ELSE /\ pc' = [pc EXCEPT ![i] = "submitting"]
            /\ progress' = [progress EXCEPT ![i] = @ \o <<MsgInit>>]
            /\ trace' = [trace EXCEPT ![i] = @ \o <<"progress", "submit">>]
            /\ UNCHANGED outcome
  /\ UNCHANGED <<envKey, operation, timer, request, thrown, providerVars>>

\* generateVideos returns r: the provider issues a fresh handle.
SubmitReturns(i, r) ==
  /\ pc[i] = "submitting"
  /\ LET op == Refreshed(nextHandle, r) IN
       /\ operation' = [operation EXCEPT ![i] = op]
       /\ progress' = [progress EXCEPT ![i] = @ \o <<MsgRendering>>]
       /\ LoopOrSettle(i, op, <<RespEvent(op), "progress">>)
  /\ nextHandle' = nextHandle + 1
  /\ handleOf' = [handleOf EXCEPT ![i] = nextHandle]
  /\ UNCHANGED <<envKey, apiKey, request, thrown, pollLog>>

\* generateVideos throws e.
SubmitThrows(i, e) ==
  /\ pc[i] = "submitting"
  /\ pc' = [pc EXCEPT ![i] = "rejected"]
  /\ outcome' = [outcome EXCEPT ![i] = Rejected(Rethrow(e))]
  /\ trace' = [trace EXCEPT ![i] = @ \o <<"throw">>]
  /\ thrown' = [thrown EXCEPT ![i] = e]
  /\ UNCHANGED <<envKey, apiKey, operation, timer, request, progress, providerVars>>

\* Mutant of TimerFires: the onProgress call of the loop body left out.
TimerFiresSilent(i) ==
  /\ pc[i] = "waiting"
  /\ pc' = [pc EXCEPT ![i] = "polling"]
  /\ timer' = [timer EXCEPT ![i] = 0]
  /\ request' = [request EXCEPT ![i] = PollArgument(i)]
  /\ pollLog' = pollLog \cup {<<i, PollArgument(i)>>}
  /\ trace' = [trace EXCEPT ![i] = @ \o <<"poll">>]
  /\ UNCHANGED <<envKey, apiKey, operation, outcome, progress, thrown, nextHandle, handleOf>>

\* The 5 s timer fires: onProgress, then the status call is sent.
TimerFires(i) ==
  /\ pc[i] = "waiting"
  /\ pc' = [pc EXCEPT ![i] = "polling"]
  /\ timer' = [timer EXCEPT ![i] = 0]
  /\ progress' = [progress EXCEPT ![i] = @ \o <<MsgStill>>]
  /\ request' = [request EXCEPT ![i] = PollArgument(i)]
  /\ pollLog' = pollLog \cup {<<i, PollArgument(i)>>}
  /\ trace' = [trace EXCEPT ![i] = @ \o <<"progress", "poll">>]
  /\ UNCHANGED <<envKey, apiKey, operation, outcome, thrown, nextHandle, handleOf>>

\* getVideosOperation returns r for the handle it was asked about.
PollReturns(i, r) ==
  /\ pc[i] = "polling"
  /\ LET op == Refreshed(request[i], r) IN
       /\ operation' = [operation EXCEPT ![i] = op]
       /\ LoopOrSettle(i, op, <<RespEvent(op)>>)
  /\ request' = [request EXCEPT ![i] = 0]
  /\ UNCHANGED <<envKey, apiKey, progress, thrown, providerVars>>

\* getVideosOperation throws e.
PollThrows(i, e) ==
  /\ pc[i] = "polling"
  /\ pc' = [pc EXCEPT ![i] = "rejected"]
  /\ outcome' = [outcome EXCEPT ![i] = Rejected(Rethrow(e))]
  /\ request' = [request EXCEPT ![i] = 0]
  /\ trace' = [trace EXCEPT ![i] = @ \o <<"throw">>]
  /\ thrown' = [thrown EXCEPT ![i] = e]
  /\ UNCHANGED <<envKey, apiKey, operation, timer, progress, providerVars>>

\* --------------------------------------------------------------- pcmToWav
\* Values of one byte of PCM data (decodeAudio stores char codes of atob).
ByteValues == { 0, 1, 255 }
\* Uint8Array contents, as sequences of bytes.
PcmInputs == UNION { [1..n -> ByteValues] : n \in 0..MaxLen }
\* Sample rates: the callers pass 24000.
SampleRates == { 8000, 24000, 48000 }

\* new ArrayBuffer(44)
HeaderBytes == 44

\* new ArrayBuffer(n): n zero bytes.  Offsets are 0-based, sequences 1-based.
ArrayBuffer(n) == [k \in 1..n |-> 0]

\* DataView.setUint8: the value modulo 2^8.
SetUint8(view, byteOffset, value) == [view EXCEPT ![byteOffset + 1] = value % 256]

\* DataView.setUint16(byteOffset, value, true): the two low bytes of the
\* value (the value modulo 2^16), low byte first.
SetUint16(view, byteOffset, value) ==
  SetUint8(SetUint8(view, byteOffset, value), byteOffset + 1, value \div 256)

\* DataView.setUint32(byteOffset, value, true): the four low bytes of the
\* value (the value modulo 2^32), low byte first.
SetUint32(view, byteOffset, value) ==
  SetUint8(SetUint8(SetUint8(SetUint8(view,
    byteOffset, value),
    byteOffset + 1, value \div 256),
    byteOffset + 2, value \div 65536),
    byteOffset + 3, value \div 16777216)

\* string.charCodeAt(i) for the four chunk tags, i from 0.
CharCodes(string) ==
  CASE string = "RIFF" -> <<82, 73, 70, 70>>
    [] string = "WAVE" -> <<87, 65, 86, 69>>
    [] string = "fmt " -> <<102, 109, 116, 32>>
    [] string = "data" -> <<100, 97, 116, 97>>

\* The loop of writeString from index i on.
RECURSIVE WriteFrom(_, _, _, _)
WriteFrom(view, offset, codes, i) ==
  IF i >= Len(codes) THEN view
  ELSE WriteFrom(SetUint8(view, offset + i, codes[i + 1]), offset, codes, i + 1)

WriteString(view, offset, string) == WriteFrom(view, offset, CharCodes(string), 0)

NumChannels == 1
BitsPerSample == 16

\* const blockAlign = (numChannels * bitsPerSample) / 8
BlockAlign == (NumChannels * BitsPerSample) \div 8

\* Mutant of ByteRate: the block alignment left out, byteRate = sampleRate.
ByteRateOfSamples(sampleRate) == sampleRate

\* const byteRate = sampleRate * blockAlign
ByteRate(sampleRate) == sampleRate * BlockAlign

\* Mutant of DataSize: the size counted in 16-bit samples.
DataSizeInSamples(pcmData) == Len(pcmData) \div 2

\* const dataSize = pcmData.length
DataSize(pcmData) == Len(pcmData)

\* Mutant of FileSize: the whole header counted, 44 + dataSize.
FileSizeWholeHeader(dataSize) == HeaderBytes + dataSize

\* const fileSize = 36 + dataSize
FileSize(dataSize) == 36 + dataSize

\* The 44 header bytes, written in the order of the code.
Header(pcmData, sampleRate) ==
  LET b0 == ArrayBuffer(HeaderBytes)
      b1 == WriteString(b0, 0, "RIFF")
      b2 == SetUint32(b1, 4, FileSize(DataSize(pcmData)))
      b3 == WriteString(b2, 8, "WAVE")
      b4 == WriteString(b3, 12, "fmt ")
      b5 == SetUint32(b4, 16, 16)
      b6 == SetUint16(b5, 20, 1)
      b7 == SetUint16(b6, 22, NumChannels)
      b8 == SetUint32(b7, 24, sampleRate)
      b9 == SetUint32(b8, 28, ByteRate(sampleRate))
      b10 == SetUint16(b9, 32, BlockAlign)
      b11 == SetUint16(b10, 34, BitsPerSample)
      b12 == WriteString(b11, 36, "data")
  IN SetUint32(b12, 40, DataSize(pcmData))

\* new Blob(parts, { type }): the parts copied one after the other.
RECURSIVE Concat(_)
Concat(parts) == IF parts = << >> THEN << >> ELSE Head(parts) \o Concat(Tail(parts))
Blob(parts, type) == [type |-> type, bytes |-> Concat(parts)]
NoBlob == [type |-> "", bytes |-> << >>]

\* Mutant of PcmToWav: the payloads kept in a module-level list, each call
\* returning everything converted so far.
PcmToWavAccumulating(pcmData, sampleRate) ==
  Blob(<<Header(pcmData, sampleRate),
         SubSeq(wavBlob.bytes, HeaderBytes + 1, Len(wavBlob.bytes)), pcmData>>, "audio/wav")

\* return new Blob([header, pcmData], { type: 'audio/wav' })
PcmToWav(pcmData, sampleRate) == Blob(<<Header(pcmData, sampleRate), pcmData>>, "audio/wav")

\* One call of pcmToWav, as remembered in `earlier`.
CallRecord(pcmData, sampleRate, blob) ==
  [pcmData |-> pcmData, sampleRate |-> sampleRate, blob |-> blob]
NoCall == CallRecord(<< >>, 0, NoBlob)

\* const audioBytes = decodeAudio(base64Audio); const wavBlob = pcmToWav(audioBytes, rate)
\* `earlier` keeps the previous call or the one it already holds.
ToWav(bytes, rate) ==
  /\ audioBytes' = bytes
  /\ rateArg' = rate
  /\ wavBlob' = PcmToWav(bytes, rate)
  /\ earlier' \in {earlier} \cup
       (IF wavBlob = NoBlob THEN {} ELSE {CallRecord(audioBytes, rateArg, wavBlob)})
  /\ UNCHANGED <<envKey, jobVars, providerVars, uiVars>>

WavInitial ==
  /\ audioBytes = << >>
  /\ rateArg = 0
  /\ wavBlob = NoBlob
  /\ earlier = NoCall

\* ------------------------------------------------------- the poller alone
\* useState initial values of VeoStudio (a freshly mounted instance).
InitialState ==
  [isGenerating |-> FALSE, progressMessage |-> "", videoUri |-> Undefined, error |-> Undefined]

StudioInitial ==
  /\ selectedImage = << >>
  /\ imageMimeType = <<"image", "png">>
  /\ prompt = ""
  /\ aspectRatio = "16:9"
  /\ state = InitialState

\* useState initial values of App.
AppInitial ==
  /\ mode = "VIDEO"
  /\ apiKeyReady = FALSE
  /\ customApiKey = ""

JobsInitial ==
  /\ pc = [i \in Invs |-> "idle"]
  /\ apiKey = [i \in Invs |-> Undefined]
  /\ operation = [i \in Invs |-> NoOperation]
  /\ timer = [i \in Invs |-> 0]
  /\ request = [i \in Invs |-> 0]
  /\ outcome = [i \in Invs |-> NoOutcome]
  /\ trace = [i \in Invs |-> << >>]
  /\ progress = [i \in Invs |-> << >>]
  /\ thrown = [i \in Invs |-> NoError]
  /\ nextHandle = 1
  /\ handleOf = [i \in Invs |-> 0]
  /\ pollLog = {}
  /\ attached = [i \in Invs |-> FALSE]
  /\ sourceImage = [i \in Invs |-> Undefined]

\* generateVeoVideo called directly, no component around it.
Init ==
  /\ envKey \in EnvKeys
  /\ JobsInitial
  /\ AppInitial
  /\ StudioInitial
  /\ WavInitial
  /\ storedKey = Undefined

\* Invocation ids are handed out in order.
NextId(i) == \A j \in Invs : j < i => pc[j] # "idle"

Call == \E i \in Invs, key \in ExplicitKeys : NextId(i) /\ Invoke(i, key) /\ UNCHANGED <<uiVars, wavVars>>
SubmitAnswer == \E i \in Invs, r \in Responses : SubmitReturns(i, r) /\ UNCHANGED <<uiVars, wavVars>>
SubmitFailure == \E i \in Invs, e \in ProviderErrors : SubmitThrows(i, e) /\ UNCHANGED <<uiVars, wavVars>>
Timeout == \E i \in Invs : nPoll(i) < MaxPolls /\ TimerFires(i) /\ UNCHANGED <<uiVars, wavVars>>
PollAnswer == \E i \in Invs, r \in Responses : PollReturns(i, r) /\ UNCHANGED <<uiVars, wavVars>>
PollFailure == \E i \in Invs, e \in ProviderErrors : PollThrows(i, e) /\ UNCHANGED <<uiVars, wavVars>>

Next ==
  \/ Call
  \/ SubmitAnswer
  \/ SubmitFailure
  \/ Timeout
  \/ PollAnswer
  \/ PollFailure

Spec == Init /\ [][Next]_vars

\* ------------------------------- the poller with a provider that finishes
\* The provider assumed to finish every job: of the status calls of one
\* invocation it answers fewer than MaxPolls not-done.
FinishingAnswer(i, r) ==
  (r.done \/ nPoll(i) < MaxPolls) /\ PollReturns(i, r) /\ UNCHANGED <<uiVars, wavVars>>

PollAnswerFinishing == \E i \in Invs, r \in Responses : FinishingAnswer(i, r)

NextFinishing ==
  \/ Call
  \/ SubmitAnswer
  \/ SubmitFailure
  \/ Timeout
  \/ PollAnswerFinishing
  \/ PollFailure

\* Timers fire and calls return (or throw).
Fairness ==
  \A i \in Invs :
    /\ WF_vars(nPoll(i) < MaxPolls /\ TimerFires(i) /\ UNCHANGED <<uiVars, wavVars>>)
    /\ WF_vars(/\ \/ \E r \in Responses : SubmitReturns(i, r)
                   \/ \E e \in ProviderErrors : SubmitThrows(i, e)
                /\ UNCHANGED <<uiVars, wavVars>>)
    /\ WF_vars(\/ \E r \in Responses : FinishingAnswer(i, r)
                \/ \E e \in ProviderErrors : PollThrows(i, e) /\ UNCHANGED <<uiVars, wavVars>>)

SpecFinishing == Init /\ [][NextFinishing]_vars /\ Fairness

\* ------------------------------------------------------------- VeoStudio
\* Files the user may pick: MIME type as <<type, subtype>> and base64 payload.
Files ==
  { [type |-> <<"image", "png">>, data |-> "AAAA"],
    [type |-> <<"image", "jpeg">>, data |-> "BBBB"],
    [type |-> <<"text", "plain">>, data |-> "CCCC"] }
Prompts == { "", "zoom in" }
AspectRatios == { "16:9", "9:16" }
\* Texts typed into the settings field.
TypedKeys == { "", "USERKEY" }

\* What the provider answers in the studio: still running, a video, no
\* video, a reported error.
StudioResponses ==
  { [done |-> FALSE, error |-> NoErrField, response |-> RespAbsent],
    [done |-> TRUE, error |-> NoErrField, response |-> RespUri(GoodUri)],
    [done |-> TRUE, error |-> NoErrField, response |-> RespAbsent],
    [done |-> TRUE, error |-> [set |-> TRUE, message |-> "quota exceeded"],
     response |-> RespAbsent] }

\* What the provider throws in the studio: an error without a message.
StudioErrors == { Err("provider", "") }

\* file.type.startsWith('image/')
IsImage(file) == file.type[1] = "image"

\* reader.result, "data:<type>;base64,<data>", kept as <<type, data>>.
DataUrl(file) == <<file.type, file.data>>

\* selectedImage.split(',')[1]
Base64Of(image) == image[2]

\* (msg) => setState(prev => ({ ...prev, progressMessage: msg }))
SetProgress(st, msg) == [st EXCEPT !.progressMessage = msg]

\* The onProgress calls of one segment, applied in order.
RECURSIVE ApplyProgress(_, _)
ApplyProgress(st, msgs) ==
  IF msgs = << >> THEN st ELSE ApplyProgress(SetProgress(st, Head(msgs)), Tail(msgs))

\* Mutant of Generating: a functional update that keeps the previous result,
\* setState(prev => ({ ...prev, isGenerating: true, progressMessage: 'Initializing...' })).
GeneratingKeepsPrevious ==
  [state EXCEPT !.isGenerating = TRUE, !.progressMessage = "Initializing..."]

\* setState at the start of handleGenerate.
Generating ==
  [isGenerating |-> TRUE, progressMessage |-> "Initializing...", videoUri |-> Undefined,
   error |-> Undefined]

\* setState after the awaited call resolved.
OnResolved(uri) ==
  [isGenerating |-> FALSE, progressMessage |-> "Done!", videoUri |-> uri, error |-> Undefined]

\* Mutant of OnRejected: the message shown as it is, error: err.message.
OnRejectedNoFallback(err) ==
  [isGenerating |-> FALSE, progressMessage |-> "", videoUri |-> Undefined,
   error |-> err.message]

\* setState in the catch block.
OnRejected(err) ==
  [isGenerating |-> FALSE, progressMessage |-> "", videoUri |-> Undefined,
   error |-> OrElse(err.message, "An unexpected error occurred")]

\* What the segment invocation i has just run does to the component state
\* `st`: its onProgress calls, then the continuation of handleGenerate when
\* the call has settled.  setState of an unmounted instance changes nothing.
Rendered(i, st) ==
  IF ~attached'[i] THEN state
  ELSE IF outcome'[i].kind = "resolved" THEN OnResolved(outcome'[i].value)
  ELSE IF outcome'[i].kind = "rejected" THEN OnRejected(outcome'[i].error)
  ELSE ApplyProgress(st, SubSeq(progress'[i], Len(progress[i]) + 1, Len(progress'[i])))

\* Mutant of ButtonDisabled: disabled={!selectedImage || !apiKeyReady}.
ButtonDisabledWhileIdleOnly == selectedImage = << >> \/ ~apiKeyReady

\* disabled={!selectedImage || state.isGenerating || !apiKeyReady}
ButtonDisabled == selectedImage = << >> \/ state.isGenerating \/ ~apiKeyReady

\* handleGenerate, up to its await.
HandleGenerate(i) ==
  IF selectedImage = << >> \/ ~apiKeyReady
    THEN UNCHANGED vars
    ELSE /\ Invoke(i, customApiKey)
         /\ attached' = [attached EXCEPT ![i] = TRUE]
         /\ sourceImage' = [sourceImage EXCEPT ![i] = Base64Of(selectedImage)]
         /\ state' = Rendered(i, Generating)
         /\ UNCHANGED <<appVars, wavVars, selectedImage, imageMimeType, prompt, aspectRatio>>

\* A job segment of an invocation made by handleGenerate.
StudioFrame ==
  UNCHANGED <<appVars, wavVars, selectedImage, imageMimeType, prompt, aspectRatio, attached,
              sourceImage>>

\* handleFileChange and the reader.onloadend it sets up.
HandleFileChange(file) ==
  /\ mode = "VIDEO"
  /\ IF ~IsImage(file)
       THEN UNCHANGED <<selectedImage, imageMimeType, state>>
       ELSE /\ selectedImage' = DataUrl(file)
            /\ imageMimeType' = file.type
            /\ state' = [state EXCEPT !.videoUri = Undefined, !.error = Undefined]
  /\ UNCHANGED <<envKey, wavVars, jobVars, providerVars, appVars, prompt, aspectRatio, attached,
                 sourceImage>>

\* onChange of the prompt textarea.
SetPrompt(p) ==
  /\ mode = "VIDEO"
  /\ prompt' = p
  /\ UNCHANGED <<envKey, wavVars, jobVars, providerVars, appVars, selectedImage, imageMimeType,
                 aspectRatio, state, attached, sourceImage>>

\* onClick of the aspect ratio buttons.
SetAspectRatio(a) ==
  /\ mode = "VIDEO"
  /\ aspectRatio' = a
  /\ UNCHANGED <<envKey, wavVars, jobVars, providerVars, appVars, selectedImage, imageMimeType,
                 prompt, state, attached, sourceImage>>

\* ------------------------------------------------------------------- App
\* String.prototype.trim on the texts the model types.
Trim(str) ==
  CASE str = " " -> ""
    [] str = " USERKEY " -> "USERKEY"
    [] OTHER -> str

\* Mutant of SetMode: unmounting VeoStudio aborts the jobs it started.
SetModeCancels(m) ==
  /\ mode' = m
  /\ IF mode = "VIDEO" /\ m = "AUDIO"
       THEN /\ selectedImage' = << >>
            /\ imageMimeType' = <<"image", "png">>
            /\ prompt' = ""
            /\ aspectRatio' = "16:9"
            /\ state' = InitialState
            /\ attached' = [i \in Invs |-> FALSE]
            /\ sourceImage' = [i \in Invs |-> Undefined]
            /\ pc' = [i \in Invs |->
                        IF attached[i] /\ pc[i] \in {"submitting", "waiting", "polling"}
                          THEN "rejected" ELSE pc[i]]
            /\ timer' = [i \in Invs |-> IF attached[i] THEN 0 ELSE timer[i]]
       ELSE UNCHANGED <<studioVars, pc, timer>>
  /\ UNCHANGED <<envKey, wavVars, apiKey, operation, request, outcome, trace, progress, thrown,
                 providerVars, apiKeyReady, customApiKey, storedKey>>

\* The tab buttons: leaving VIDEO unmounts the VeoStudio instance, coming
\* back mounts a fresh one.
SetMode(m) ==
  /\ mode' = m
  /\ IF mode = "VIDEO" /\ m = "AUDIO"
       THEN /\ selectedImage' = << >>
            /\ imageMimeType' = <<"image", "png">>
            /\ prompt' = ""
            /\ aspectRatio' = "16:9"
            /\ state' = InitialState
            /\ attached' = [i \in Invs |-> FALSE]
            /\ sourceImage' = [i \in Invs |-> Undefined]
       ELSE UNCHANGED studioVars
  /\ UNCHANGED <<envKey, wavVars, jobVars, providerVars, apiKeyReady, customApiKey, storedKey>>

\* onChange of the settings field.
SetCustomApiKey(text) ==
  /\ customApiKey' = text
  /\ UNCHANGED <<envKey, wavVars, jobVars, providerVars, mode, apiKeyReady, storedKey, studioVars>>

HandleSaveCustomKey ==
  /\ IF Trim(customApiKey) # ""
       THEN /\ storedKey' = Trim(customApiKey)
            /\ apiKeyReady' = TRUE
       ELSE /\ storedKey' = Undefined
            /\ apiKeyReady' = FALSE
  /\ UNCHANGED <<envKey, wavVars, jobVars, providerVars, mode, customApiKey, studioVars>>

\* The Clear button is rendered only when customApiKey is not empty.
ClearKey ==
  /\ customApiKey # ""
  /\ storedKey' = Undefined
  /\ customApiKey' = ""
  /\ apiKeyReady' = FALSE
  /\ UNCHANGED <<envKey, wavVars, jobVars, providerVars, mode, studioVars>>

\* handleSelectKey, after openApiKeySelection has returned.
HandleSelectKey ==
  /\ apiKeyReady' = TRUE
  /\ UNCHANGED <<envKey, wavVars, jobVars, providerVars, mode, customApiKey, storedKey, studioVars>>

\* initKey (on mount and on window focus), after checkApiKey has answered.
InitKey(hasInjectedKey) ==
  /\ IF Truthy(storedKey)
       THEN customApiKey' = storedKey /\ apiKeyReady' = TRUE
       ELSE customApiKey' = customApiKey /\ apiKeyReady' = hasInjectedKey
  /\ UNCHANGED <<envKey, wavVars, jobVars, providerVars, mode, storedKey, studioVars>>

\* -------------------------------------------------- the studio under App
\* The browser build: no process.env.API_KEY, the key comes from the settings.
InitStudio ==
  /\ envKey = Undefined
  /\ JobsInitial
  /\ AppInitial
  /\ StudioInitial
  /\ WavInitial
  /\ storedKey \in {Undefined, "USERKEY"}

ClickGenerate ==
  \E i \in Invs : NextId(i) /\ pc[i] = "idle" /\ mode = "VIDEO" /\ ~ButtonDisabled
                  /\ HandleGenerate(i)
StudioSubmitAnswer ==
  \E i \in Invs, r \in StudioResponses :
    SubmitReturns(i, r) /\ StudioFrame /\ state' = Rendered(i, state)
StudioSubmitFailure ==
  \E i \in Invs, e \in StudioErrors :
    SubmitThrows(i, e) /\ StudioFrame /\ state' = Rendered(i, state)
StudioTimeout ==
  \E i \in Invs :
    nPoll(i) < MaxStudioPolls /\ TimerFires(i) /\ StudioFrame /\ state' = Rendered(i, state)
StudioPollAnswer ==
  \E i \in Invs, r \in StudioResponses :
    PollReturns(i, r) /\ StudioFrame /\ state' = Rendered(i, state)
StudioPollFailure ==
  \E i \in Invs, e \in StudioErrors :
    PollThrows(i, e) /\ StudioFrame /\ state' = Rendered(i, state)
PickFile == \E file \in Files : HandleFileChange(file)
EditPrompt == \E p \in Prompts : SetPrompt(p)
PickAspectRatio == \E a \in AspectRatios : SetAspectRatio(a)
SwitchTab == \E m \in {"VIDEO", "AUDIO"} : SetMode(m)
TypeKey == \E text \in TypedKeys : SetCustomApiKey(text)
WindowFocus == \E hasInjectedKey \in BOOLEAN : InitKey(hasInjectedKey)

\* What the user does.
UserAction ==
  \/ PickFile
  \/ EditPrompt
  \/ PickAspectRatio
  \/ SwitchTab
  \/ TypeKey
  \/ HandleSaveCustomKey
  \/ ClearKey
  \/ HandleSelectKey
  \/ WindowFocus

NextStudio ==
  \/ ClickGenerate
  \/ StudioSubmitAnswer
  \/ StudioSubmitFailure
  \/ StudioTimeout
  \/ StudioPollAnswer
  \/ StudioPollFailure
  \/ UserAction

SpecStudio == InitStudio /\ [][NextStudio]_vars

\* ------------------------------------------- App's key, up to a submission
\* Texts typed into the settings field of this specification.
SettingsTexts == { "", " ", " USERKEY ", "DRAFTKEY" }

\* The state once the mount effect (initKey) has run.
InitKeys ==
  /\ envKey = Undefined
  /\ JobsInitial
  /\ StudioInitial
  /\ WavInitial
  /\ mode = "VIDEO"
  /\ storedKey \in {Undefined, "USERKEY"}
  /\ customApiKey = (IF Truthy(storedKey) THEN storedKey ELSE "")
  /\ apiKeyReady \in (IF Truthy(storedKey) THEN {TRUE} ELSE BOOLEAN)

TypeSettingsText == \E text \in SettingsTexts : SetCustomApiKey(text)

NextKeys ==
  \/ TypeSettingsText
  \/ HandleSaveCustomKey
  \/ ClearKey
  \/ HandleSelectKey
  \/ WindowFocus
  \/ SwitchTab
  \/ PickFile
  \/ ClickGenerate

SpecKeys == InitKeys /\ [][NextKeys]_vars

\* ------------------------------------------------------- pcmToWav alone
InitWav ==
  /\ envKey = Undefined
  /\ JobsInitial
  /\ AppInitial
  /\ StudioInitial
  /\ WavInitial
  /\ storedKey = Undefined

Convert == \E bytes \in PcmInputs, rate \in SampleRates : ToWav(bytes, rate)

NextWav == Convert

SpecWav == InitWav /\ [][NextWav]_vars

TypeOK ==
  /\ \A i \in Invs : pc[i] \in {"idle", "submitting", "waiting", "polling", "resolved", "rejected"}
  /\ \A i \in Invs : timer[i] \in {0, PollIntervalMs}


\* ------------------------------------------------------------ the claims
IsResponse(ev) == ev \in {"notdone", "done"}
\* The responses an invocation has seen: the submission's, then each poll's.
RespSeq(i) == SelectSeq(trace[i], IsResponse)
\* `operation` is the answer to a status call (not the submission's).
HoldsPollResponse(i) == Len(RespSeq(i)) >= 2 /\ pc[i] # "polling"
NoThrow(i) == thrown[i] = NoError
\* A done response without error that carries the non-empty uri u.
DoneWithResult(op, u) ==
  op.done /\ ~op.error.set /\ u \notin {"", Undefined} /\ op.response = RespUri(u)
Last(seq) == seq[Len(seq)]

\* C1: a not-done submission, k-1 not-done polls and a done-with-result k-th
\* poll give exactly k polls and a resolve with that result (the key
\* appended); nothing is polled or waited for once a done response was seen.
C1_PollsUntilDone ==
  \A i \in Invs :
    LET rs == RespSeq(i)
        k == Len(rs) - 1 IN
    /\ \A p, q \in DOMAIN trace[i] :
         (trace[i][p] = "done" /\ p < q) => trace[i][q] \notin {"poll", "wait", "submit"}
    /\ \A u \in {GoodUri} :
         ( /\ k >= 1
           /\ NoThrow(i)
           /\ \A n \in 1..k : rs[n] = "notdone"
           /\ rs[k + 1] = "done"
           /\ DoneWithResult(operation[i], u) )
         => /\ nPoll(i) = k
            /\ pc[i] = "resolved"
            /\ outcome[i].kind = "resolved"
            /\ outcome[i].value = u \o "&key=" \o ClientKey(apiKey[i])

\* C1 witness: [not-done, not-done, done(result)] after a not-done
\* submission, resolved after exactly 3 polls.
C1_Witness ==
  \E i \in Invs :
    /\ RespSeq(i) = <<"notdone", "notdone", "notdone", "done">>
    /\ DoneWithResult(operation[i], GoodUri)
    /\ nPoll(i) = 3
    /\ pc[i] = "resolved"

\* C2 as stated: a poll response with its error field set, whatever its done
\* flag, ends the loop at once with that error.
C2_ErrorAnyDoneFlag ==
  \A i \in Invs :
    (HoldsPollResponse(i) /\ NoThrow(i) /\ operation[i].error.set)
      => /\ pc[i] = "rejected"
         /\ outcome[i].error.message = OrElse(operation[i].error.message, MsgGenFailed)

\* C2 amended: a poll response with the done flag and the error field set ends
\* the loop at once with the provider's message and no further wait or poll;
\* one with the error field set and done false does not end the loop.
C2_ErrorWhenDone ==
  \A i \in Invs :
    (HoldsPollResponse(i) /\ NoThrow(i) /\ operation[i].error.set)
      => IF operation[i].done
           THEN /\ pc[i] = "rejected"
                /\ outcome[i].error.message
                     = OrElse(operation[i].error.message, MsgGenFailed)
                /\ Last(trace[i]) = "done"
                /\ request[i] = 0 /\ timer[i] = 0
           ELSE /\ pc[i] = "waiting"
                /\ timer[i] = PollIntervalMs
                /\ outcome[i] = NoOutcome

\* C2 witness: a poll answered done with an error.
C2_Witness ==
  \E i \in Invs :
    /\ HoldsPollResponse(i) /\ operation[i].done /\ operation[i].error.set
    /\ pc[i] = "rejected" /\ nPoll(i) = 2

\* C2 witness of the other case: a poll answered not-done with an error, and
\* the loop went on to poll again.
C2_WitnessNotDone ==
  \E i \in Invs :
    /\ HoldsPollResponse(i) /\ ~operation[i].done /\ operation[i].error.set
    /\ pc[i] = "waiting"


\* C3 as stated: onProgress is called before each wait, and once more after
\* the done response was seen and before the call resolves.
C3_ProgressAfterDone ==
  \A i \in Invs :
    /\ \A q \in DOMAIN trace[i] :
         trace[i][q] = "wait"
           => \E p \in 1..(q - 1) :
                /\ trace[i][p] = "progress"
                /\ \A n \in (p + 1)..(q - 1) : trace[i][n] # "wait"
    /\ pc[i] = "resolved"
         => \E p, q \in DOMAIN trace[i] :
              p < q /\ trace[i][p] = "done" /\ trace[i][q] = "progress"

\* C3 amended: onProgress is called once before the submission, once when the
\* submission has returned, and once after each wait just before the poll, so
\* that a call lies between any two waits and before the first; no call is made
\* after a poll has answered done (the last message of a polled job is
\* "Still rendering...").
C3_ProgressPoints ==
  \A i \in Invs :
    /\ Len(progress[i]) = Count(trace[i], "progress")
    /\ \A n \in DOMAIN progress[i] :
         progress[i][n] = IF n = 1 THEN MsgInit ELSE IF n = 2 THEN MsgRendering ELSE MsgStill
    /\ Len(progress[i]) =
         (IF nSubmit(i) = 1 THEN 1 ELSE 0) + (IF Len(RespSeq(i)) >= 1 THEN 1 ELSE 0) + nPoll(i)
    /\ \A q \in DOMAIN trace[i] :
         trace[i][q] = "wait"
           => \E p \in 1..(q - 1) :
                /\ trace[i][p] = "progress"
                /\ \A n \in (p + 1)..(q - 1) : trace[i][n] # "wait"
    /\ \A q \in DOMAIN trace[i] :
         trace[i][q] = "poll" => trace[i][q - 1] = "progress"
    /\ \A p, q \in DOMAIN trace[i] :
         (p < q /\ trace[i][p] = "done" /\ trace[i][q] = "progress")
           => (nPoll(i) = 0 /\ q = p + 1)
    /\ (Terminal(i) /\ nPoll(i) >= 1) => Last(progress[i]) = MsgStill

\* C3 witness: a job resolved after two polls, its last onProgress call made
\* before the poll that answered done.
C3_Witness ==
  \E i \in Invs :
    /\ pc[i] = "resolved" /\ nPoll(i) = 2
    /\ progress[i] = <<MsgInit, MsgRendering, MsgStill, MsgStill>>
    /\ Last(trace[i]) = "done"

\* C4: one submission per invocation, before any poll; every poll follows one
\* 5000 ms wait that was started after the previous response; a submission
\* answered done is followed by no wait and no poll.
C4_SubmitOnceWaitThenPoll ==
  \A i \in Invs :
    LET tr == trace[i] IN
    /\ nSubmit(i) <= 1
    /\ (pc[i] \in {"submitting", "waiting", "polling", "resolved"}) => nSubmit(i) = 1
    /\ \A q \in DOMAIN tr : tr[q] \in {"poll", "wait"} => \E p \in 1..(q - 1) : tr[p] = "submit"
    /\ \A q \in DOMAIN tr :
         tr[q] = "poll"
           => /\ q >= 4
              /\ tr[q - 1] = "progress"
              /\ tr[q - 2] = "wait"
              /\ \/ tr[q - 3] = "notdone"
                 \/ tr[q - 3] = "progress" /\ tr[q - 4] = "notdone"
    /\ \A p, q \in DOMAIN tr :
         (p < q /\ tr[p] = "poll" /\ tr[q] = "poll")
           => \E n \in (p + 1)..(q - 1) : tr[n] = "wait"
    /\ nWait(i) - nPoll(i) = (IF pc[i] = "waiting" THEN 1 ELSE 0)
    /\ timer[i] = (IF pc[i] = "waiting" THEN 5000 ELSE 0)
    /\ (Len(RespSeq(i)) >= 1 /\ RespSeq(i)[1] = "done") => (nWait(i) = 0 /\ nPoll(i) = 0)

\* C4 witness: a second wait running, started after the first poll's answer.
C4_Witness ==
  \E i \in Invs :
    /\ pc[i] = "waiting" /\ timer[i] = 5000
    /\ nWait(i) = 2 /\ nPoll(i) = 1 /\ nSubmit(i) = 1

\* C4 witness of the other case: the submission answered done.
C4_WitnessDoneAtOnce ==
  \E i \in Invs : Terminal(i) /\ RespSeq(i) = <<"done">> /\ nWait(i) = 0

\* C5: a submission or a status call that throws rejects the call with the
\* very error thrown, and nothing is submitted, waited for or polled after it.
C5_ThrowIsTerminal ==
  \A i \in Invs :
    /\ (thrown[i] # NoError)
         => /\ pc[i] = "rejected"
            /\ outcome[i].kind = "rejected"
            /\ outcome[i].error = thrown[i]
            /\ Last(trace[i]) = "throw"
            /\ Count(trace[i], "throw") = 1
            /\ timer[i] = 0 /\ request[i] = 0
    /\ (thrown[i] = NoError) => Count(trace[i], "throw") = 0

\* C5 witness: the second status call threw.
C5_Witness ==
  \E i \in Invs :
    /\ thrown[i] \in ProviderErrors /\ nPoll(i) = 2 /\ pc[i] = "rejected"

\* C5 witness of the other case: the submission threw.
C5_WitnessSubmit ==
  \E i \in Invs :
    /\ thrown[i] \in ProviderErrors /\ nPoll(i) = 0 /\ nSubmit(i) = 1 /\ pc[i] = "rejected"

\* C6: a done job with the error field set fails with the provider's message,
\* or "Video generation failed" when that is empty, and never resolves, even
\* when the response carries a uri.
C6_ErrorBeforeResult ==
  \A i \in Invs :
    (operation[i].done /\ operation[i].error.set)
      => /\ pc[i] = "rejected"
         /\ outcome[i].kind = "rejected"
         /\ outcome[i].value = Undefined
         /\ outcome[i].error.message =
              (IF operation[i].error.message = "" THEN "Video generation failed"
               ELSE operation[i].error.message)

\* C6 witness: done, error set, and a uri in the same response.
C6_Witness ==
  \E i \in Invs :
    /\ operation[i].done /\ operation[i].error.set
    /\ operation[i].response = RespUri(GoodUri)
    /\ pc[i] = "rejected"

\* C6 witness of the empty message.
C6_WitnessEmptyMessage ==
  \E i \in Invs :
    /\ operation[i].done /\ operation[i].error.set /\ operation[i].error.message = ""
    /\ outcome[i].error.message = "Video generation failed"

\* C7: a done job without error field and without a non-empty uri fails with
\* "No video URI returned from the API."; a resolved call carries a non-empty
\* provider uri.
C7_NoUriNoResolve ==
  \A i \in Invs :
    /\ ( /\ operation[i].done /\ ~operation[i].error.set
         /\ operation[i].response \in
              {RespAbsent, RespNoVideos, RespNoVideo, RespNoUri, RespUri("")} )
         => /\ pc[i] = "rejected"
            /\ outcome[i].error.message = "No video URI returned from the API."
    /\ (pc[i] = "resolved" \/ outcome[i].kind = "resolved")
         => \E u \in {GoodUri} :
              /\ DoneWithResult(operation[i], u)
              /\ outcome[i].value = u \o "&key=" \o ClientKey(apiKey[i])

\* C7 witness: done with a uri that is the empty string.
C7_Witness ==
  \E i \in Invs :
    /\ operation[i].done /\ ~operation[i].error.set
    /\ operation[i].response = RespUri("")
    /\ pc[i] = "rejected" /\ outcome[i].error.message = MsgNoUri


\* No response seen so far had the done flag, and nothing was thrown.
NeverDone(i) == NoThrow(i) /\ Count(trace[i], "done") = 0
Started(i) == nSubmit(i) = 1

\* C8: with timers firing, calls returning and a provider that eventually
\* answers done or throws, every invocation settles; and as long as no
\* response is done and nothing is thrown the invocation is not settled,
\* whatever the number of polls made: it is waiting (the timer will fire and
\* poll again) or a call is in flight.
C8_SettlesOnlyOnDoneOrThrow ==
  /\ \A i \in Invs : (pc[i] # "idle") ~> Terminal(i)
  /\ [](\A i \in Invs :
          (Started(i) /\ NeverDone(i))
            => /\ pc[i] \in {"submitting", "waiting", "polling"}
               /\ outcome[i] = NoOutcome
               /\ pc[i] = "waiting" => ENABLED (TimerFires(i) /\ UNCHANGED <<uiVars, wavVars>>))

\* C8 witness: MaxPolls polls made, none answered done yet, the last in flight.
C8_Witness ==
  \E i \in Invs :
    /\ NeverDone(i) /\ pc[i] = "polling" /\ nPoll(i) = MaxPolls
    /\ RespSeq(i) = [n \in 1..MaxPolls |-> "notdone"]

\* The locals of one invocation.
Local(i) ==
  <<pc[i], apiKey[i], operation[i], timer[i], request[i], outcome[i], trace[i],
    progress[i], thrown[i]>>
\* What one invocation was given: its key, the done flags of its responses,
\* the response it holds and what was thrown at it.
Given(i) ==
  <<apiKey[i], RespSeq(i), operation[i].done, operation[i].error,
    operation[i].response, thrown[i]>>

\* C9: the two invocations are independent jobs: each submits once and gets
\* a handle of its own, holds and polls with that handle only, its poll count
\* and outcome are the same as those of any invocation given the same key and
\* responses, and no step changes the locals of both.
C9_IndependentJobs ==
  /\ [](\A i, j \in Invs :
          /\ nSubmit(i) <= 1
          /\ operation[i].name = handleOf[i]
          /\ request[i] \in {0, handleOf[i]}
          /\ \A e \in pollLog : e[1] = i => (e[2] = handleOf[i] /\ e[2] # 0)
          /\ (i # j /\ handleOf[i] # 0) => handleOf[i] # handleOf[j]
          /\ (Terminal(i) /\ Terminal(j) /\ Given(i) = Given(j))
               => (nPoll(i) = nPoll(j) /\ outcome[i] = outcome[j]))
  /\ [][\A i, j \in Invs :
          (i # j /\ Local(i)' # Local(i)) => Local(j)' = Local(j)]_vars

\* C9 witness: both invocations polling at once, each with its own handle,
\* after one of them has already been answered differently from the other.
C9_Witness ==
  /\ pc[1] = "polling" /\ pc[2] = "polling"
  /\ request[1] # request[2]
  /\ handleOf[1] = 2 /\ handleOf[2] = 1
  /\ nPoll(1) = 1 /\ nPoll(2) = 3
  /\ pollLog = {<<1, 2>>, <<2, 1>>}


\* C10: no user action (picking a file, editing the prompt, choosing an
\* aspect ratio, switching tabs, typing, saving or clearing the key, the
\* project selector, a window focus) touches an invocation; a started
\* invocation that has seen no done response and no throw is still in its
\* loop, and when it waits its timer can fire and send the next poll.
C10_NoCancellation ==
  /\ [][UserAction => \A i \in Invs : Local(i)' = Local(i)]_vars
  /\ [](\A i \in Invs :
          (Started(i) /\ NeverDone(i))
            => /\ pc[i] \in {"submitting", "waiting", "polling"}
               /\ pc[i] = "waiting"
                    => ENABLED (TimerFires(i) /\ StudioFrame /\ state' = Rendered(i, state)))

\* C10 witness: a job started with the saved key is polling after the user
\* cleared the key and switched to the audio tab.
C10_Witness ==
  \E i \in Invs :
    /\ pc[i] = "polling" /\ nPoll(i) = 1 /\ apiKey[i] = "USERKEY"
    /\ mode = "AUDIO" /\ ~attached[i]
    /\ customApiKey = "" /\ ~apiKeyReady /\ storedKey = Undefined

\* C10 witness of the mounted case: the job is polling while the studio shows
\* another image, prompt and aspect ratio than the initial ones.
C10_WitnessMounted ==
  \E i \in Invs :
    /\ pc[i] = "polling" /\ attached[i] /\ state.isGenerating
    /\ selectedImage = <<<<"image", "jpeg">>, "BBBB">>
    /\ prompt = "zoom in" /\ aspectRatio = "9:16"

\* ------------------------------------------------------ claims on pcmToWav
\* DataView.getUint16 / getUint32 (little-endian) on a sequence of bytes.
GetUint16(bytes, byteOffset) == bytes[byteOffset + 1] + 256 * bytes[byteOffset + 2]
GetUint32(bytes, byteOffset) ==
  bytes[byteOffset + 1] + 256 * bytes[byteOffset + 2] + 65536 * bytes[byteOffset + 3]
    + 16777216 * bytes[byteOffset + 4]
Converted == wavBlob # NoBlob

\* C11: the RIFF size field, header bytes 4-7 read as an unsigned 32-bit
\* little-endian number, is 36 + the length of the PCM input in bytes.
C11_RiffSize ==
  Converted => GetUint32(wavBlob.bytes, 4) = 36 + Len(audioBytes)

\* C11 witness: a 2-byte input, RIFF size 38.
C11_Witness ==
  Converted /\ Len(audioBytes) = 2 /\ GetUint32(wavBlob.bytes, 4) = 38

\* C12: the data chunk size, header bytes 40-43, is the input length; the
\* output is 44 header bytes followed by the input bytes as they are.
C12_DataSizeAndPayload ==
  Converted =>
    /\ GetUint32(wavBlob.bytes, 40) = Len(audioBytes)
    /\ Len(wavBlob.bytes) = 44 + Len(audioBytes)
    /\ SubSeq(wavBlob.bytes, 45, Len(wavBlob.bytes)) = audioBytes
    /\ SubSeq(wavBlob.bytes, 37, 40) = <<100, 97, 116, 97>>
    /\ wavBlob.type = "audio/wav"

\* C12 witness: the bytes [0x00, 0x01] at 24000 Hz give 46 bytes with
\* bytes 40-43 equal to 2.
C12_Witness ==
  /\ Converted
  /\ audioBytes = <<0, 1>> /\ rateArg = 24000
  /\ Len(wavBlob.bytes) = 46
  /\ SubSeq(wavBlob.bytes, 41, 44) = <<2, 0, 0, 0>>
  /\ SubSeq(wavBlob.bytes, 45, 46) = <<0, 1>>

C14_FormatFields ==
  Converted =>
    /\ GetUint32(wavBlob.bytes, 16) = 16
    /\ GetUint16(wavBlob.bytes, 20) = 1
    /\ GetUint16(wavBlob.bytes, 22) = 1
    /\ GetUint32(wavBlob.bytes, 24) = rateArg
    /\ GetUint32(wavBlob.bytes, 28) = rateArg * 2
    /\ GetUint16(wavBlob.bytes, 32) = 2
    /\ GetUint16(wavBlob.bytes, 34) = 16

\* C14 witness: a conversion at 48000 Hz, byte rate 96000 (bytes 0x00 0x77 0x01 0x00).
C14_Witness ==
  /\ Converted /\ rateArg = 48000
  /\ SubSeq(wavBlob.bytes, 29, 32) = <<0, 119, 1, 0>>

\* ----------------------------------------------------- claims on VeoStudio
\* A job of the mounted VeoStudio that has not settled.
InFlight(i) == attached[i] /\ pc[i] \in {"submitting", "waiting", "polling"}
\* The key generateVeoVideo works with: the argument, else the environment's.
KeyOf(i) == IF Truthy(apiKey[i]) THEN apiKey[i] ELSE envKey

C15_WitnessMissingKey ==
  \E i \in Invs :
    attached[i] /\ pc[i] = "rejected" /\ trace[i] = << >> /\ state.error = MsgNoKey
C15_WitnessReported ==
  \E i \in Invs :
    attached[i] /\ pc[i] = "rejected" /\ operation[i].error.set
      /\ state.error = "quota exceeded" /\ ~state.isGenerating
C15_WitnessNoUri ==
  \E i \in Invs :
    attached[i] /\ pc[i] = "rejected" /\ state.error = MsgNoUri /\ ~state.isGenerating

\* C16: without an explicit key and without an environment key the call is
\* rejected with 'API Key not found...' and has emitted no progress and made
\* no submission or poll; a call that submitted has a non-empty key, and the
\* uri it resolves with ends in '&key=' and that key.
C16_KeyCheckedFirst ==
  \A i \in Invs :
    /\ (pc[i] # "idle" /\ ~Truthy(KeyOf(i)))
         => /\ pc[i] = "rejected"
            /\ outcome[i] = Rejected(Err("veo", MsgNoKey))
            /\ progress[i] = << >>
            /\ trace[i] = << >>
            /\ handleOf[i] = 0
            /\ \A q \in pollLog : q[1] # i
    /\ nSubmit(i) >= 1 => Truthy(KeyOf(i))
    /\ pc[i] = "resolved"
         => outcome[i].value = VideoUriOf(operation[i]) \o "&key=" \o KeyOf(i)

\* C16 witness: a call without any key, rejected before anything else, next
\* to a call that resolved with its key appended.
C16_Witness ==
  /\ envKey = Undefined
  /\ \E i \in Invs :
       /\ apiKey[i] = "" /\ pc[i] = "rejected" /\ outcome[i].error.message = MsgNoKey
       /\ trace[i] = << >> /\ progress[i] = << >>
  /\ \E j \in Invs :
       pc[j] = "resolved" /\ outcome[j].value = GoodUri \o "&key=USERKEY"

\* C16 witness of the fallback: the environment key used by the client and
\* appended to the uri.
C16_WitnessEnvKey ==
  \E i \in Invs :
    /\ apiKey[i] = "" /\ envKey = "ENVKEY"
    /\ pc[i] = "resolved" /\ outcome[i].value = GoodUri \o "&key=ENVKEY"

\* C17: videoUri and error are never both non-null, and both are null while
\* isGenerating is true.
C17_ResultOrError ==
  /\ ~(state.videoUri # Undefined /\ state.error # Undefined)
  /\ state.isGenerating => (state.videoUri = Undefined /\ state.error = Undefined)

\* C17 witness: after a failure was displayed a new job is running, and a
\* new image was loaded while it polls.
C17_Witness ==
  /\ state.isGenerating
  /\ \E i, j \in Invs :
       /\ attached[i] /\ pc[i] = "rejected"
       /\ InFlight(j) /\ pc[j] = "polling"
       /\ sourceImage[j] # Base64Of(selectedImage)

\* C17 witnesses of the two results.
C17_WitnessVideo == state.videoUri # Undefined /\ state.error = Undefined
C17_WitnessError == state.error # Undefined /\ state.videoUri = Undefined

\* C18: the mounted VeoStudio has at most one job in flight; while it has
\* one isGenerating is true and the button disabled, and isGenerating is
\* true only then; no job starts without an image, without apiKeyReady or
\* while isGenerating.
C18_OneJobInFlight ==
  /\ [](Cardinality({i \in Invs : InFlight(i)}) <= 1)
  /\ [](\A i \in Invs : InFlight(i) => (state.isGenerating /\ ButtonDisabled))
  /\ [](state.isGenerating => \E i \in Invs : InFlight(i))
  /\ [][\A i \in Invs :
          (pc[i] = "idle" /\ pc'[i] # "idle")
            => (selectedImage # << >> /\ apiKeyReady /\ ~state.isGenerating)]_vars

\* C18 witness: the first job has settled and the second is in flight.
C18_Witness ==
  \E i, j \in Invs :
    /\ attached[i] /\ Terminal(i)
    /\ InFlight(j) /\ pc[j] = "waiting"
    /\ state.isGenerating /\ ButtonDisabled

\* C19 as stated: a video shown comes from a job that was given the image
\* now selected.
C19_NoStaleVideo ==
  state.videoUri # Undefined
    => \E i \in Invs :
         attached[i] /\ pc[i] = "resolved" /\ sourceImage[i] = Base64Of(selectedImage)

\* C19: the state the claim excludes: image B loaded while the job for
\* image A was polling, then that job's video displayed.
C19_StaleVideoShown ==
  \E i \in Invs :
    /\ attached[i] /\ pc[i] = "resolved" /\ nPoll(i) = 1
    /\ sourceImage[i] = "AAAA" /\ selectedImage # << >> /\ Base64Of(selectedImage) = "BBBB"
    /\ state.videoUri = outcome[i].value
    /\ \A j \in Invs : j # i => pc[j] = "idle"

\* ------------------------------------------------------ claims on the key
\* C20 as stated: while a key is stored, the key passed to the studios (the
\* apiKey prop, customApiKey) is the stored key.
C20_StoredKeyIsPassed ==
  Truthy(storedKey) => customApiKey = storedKey

\* C20: the state the claim excludes: text typed and never saved was given
\* to generateVeoVideo while another key is stored.
C20_DraftKeyUsed ==
  \E i \in Invs :
    /\ pc[i] = "submitting" /\ apiKey[i] = "DRAFTKEY"
    /\ storedKey = "USERKEY"

====
